---- MODULE Spec2Model ----
(***************************************************************************)
(* A model of FrankenText (src/main.c): a first-order Markov text          *)
(* generator.  The text is split on space/CR/LF into tokens, every         *)
(* distinct spelling is interned into a dense identifier through an        *)
(* open-addressed hash index, every token is appended to the successor     *)
(* list of the token before it, and a driver then samples random walks     *)
(* over the successor lists until one ends in '?' and one ends in '!'.     *)
(*                                                                         *)
(* Characters are one-character strings; NUL is the C string terminator.   *)
(* A char* is an index into book_mut (1-based); NULL is 0 and the string   *)
(* literal "" of generate_sentence is the address just past the buffer.    *)
(* Allocation is assumed to succeed (the "OOM" exits are not modelled).    *)
(***************************************************************************)
EXTENDS Integers, Sequences, FiniteSets, TLC

VARIABLES
  book,         \* the text as loaded, never written
  book_mut,     \* the text buffer, terminated by NUL; strtok_r writes NULs into it
  saveptr,      \* strtok_r's position
  prev,         \* tokenize_and_fill_succs: previous token (char*), or NULL
  tok,          \* tokenize_and_fill_succs: current token (char*), or NULL
  tokens,       \* tokens[id+1]: char* of the spelling of id, for id < tokens_size
  tokens_size,
  tokens_cap,
  hash_index,   \* [0..HASH_SIZE-1 -> id or -1]
  succs,        \* succs[id+1]: sequence of char* (the successor list of id)
  succs_sizes,  \* succs_sizes[id+1]
  succs_caps,   \* succs_caps[id+1]
  pc,           \* position of the program
  mark,         \* main: the punctuation mark of the current driver loop
  tries,        \* main: loop counter of the current driver loop
  printed,      \* main: the lines printed so far
  out_size,     \* generate_sentence: size of the caller's buffer
  out,          \* generate_sentence: the C string in the caller's buffer
  attempts,     \* random_token_id_that_starts_a_sentence: loop counter
  start_id,     \* generate_sentence: the start identifier
  token,        \* generate_sentence: current token (char*)
  steps,        \* history: successors appended by the current call
  reason,       \* history: why the current call returned
  oob,          \* history: an array was read at an index >= tokens_size
  yielded,      \* history: the spellings strtok_r has yielded to the loop body
  edges,        \* history: the (prev, curr) spellings of the append_to_succs calls
  returned      \* history: the (output, reason) of the calls that have returned,
                \* kept by SpecReport only

vars == <<book, book_mut, saveptr, prev, tok, tokens, tokens_size, tokens_cap,
          hash_index, succs, succs_sizes, succs_caps, pc, mark, tries, printed,
          out_size, out, attempts, start_id, token, steps, reason, oob,
          yielded, edges, returned>>

inputVars == <<book, out_size>>
buildVars == <<book_mut, saveptr, prev, tok, yielded>>
modelVars == <<tokens, tokens_size, tokens_cap, hash_index, succs, succs_sizes, succs_caps>>
driverVars == <<mark, tries, printed, returned>>
walkVars == <<out, attempts, start_id, token, steps, reason, oob>>

-----------------------------------------------------------------------------
(* Bounds of the model and constants of the program *)

\* slots of the hash index (HASH_SIZE, scaled down so that collisions,
\* wrap-around and a full table happen)
HASH_SIZE == 6
\* first capacity of the tokens array (32768 in the source, scaled down so
\* that the array grows)
TOKENS_INIT_CAP == 2
INIT_SUCC_CAP == 4
\* draws of random_token_id_that_starts_a_sentence (10000 in the source)
MaxAttempts == 2
\* calls of generate_sentence per mark (1000 in the source)
MaxTries == 2
\* largest out_size of the generated inputs
MaxOutSize == 8
\* longest generated corpus of the whole program, in tokens
MaxTokens == 3
\* longest generated corpus of the build pass alone, in tokens and in characters
MaxBuildTokens == 6
MaxBuildChars == 5
\* longest spelling the claims about the interner try
MaxSpellingLen == 5

NULL == 0
NUL == "NUL"

-----------------------------------------------------------------------------
(* Characters *)

Ord(c) ==
  CASE c = " " -> 32 [] c = "\n" -> 10 [] c = "\r" -> 13
    [] c = "!" -> 33 [] c = "." -> 46 [] c = "?" -> 63
    [] c = "A" -> 65 [] c = "B" -> 66 [] c = "C" -> 67 [] c = "R" -> 82
    [] c = "W" -> 87
    [] c = "a" -> 97 [] c = "b" -> 98 [] c = "c" -> 99 [] c = "d" -> 100
    [] c = "e" -> 101 [] c = "f" -> 102 [] c = "h" -> 104 [] c = "i" -> 105
    [] c = "l" -> 108 [] c = "n" -> 110 [] c = "o" -> 111 [] c = "r" -> 114
    [] c = "s" -> 115 [] c = "t" -> 116 [] c = "u" -> 117 [] c = "w" -> 119
    [] c = "y" -> 121
    [] c = NUL -> 0

\* a test for a letter of either case
isalpha_only(c) == Ord(c) >= 65
\* isalpha(c0) && isupper(c0) in the C locale
isupper_alpha(c) == Ord(c) >= 65 /\ Ord(c) <= 90

-----------------------------------------------------------------------------
(* C strings in the buffer *)

\* *p; the only address read outside the buffer is that of the literal "",
\* whose first byte is NUL
CharAtIn(buf, p) == IF p \in 1..Len(buf) THEN buf[p] ELSE NUL
CharAt(p) == CharAtIn(book_mut, p)

\* the address of the string literal ""
EmptyLiteral == Len(book_mut) + 1

RECURSIVE CStrIn(_, _)
\* the characters of the C string at p of buf, without its terminator
CStrIn(buf, p) ==
  IF CharAtIn(buf, p) = NUL THEN <<>>
  ELSE <<CharAtIn(buf, p)>> \o CStrIn(buf, p + 1)

CStr(p) == CStrIn(book_mut, p)

strlen(p) == Len(CStr(p))

\* strcmp(a, b) == 0
streq_ptr(a, b) == a = b
streq(a, b) == CStr(a) = CStr(b)

\* last_char of a character sequence
last_char(s) == IF Len(s) # 0 THEN s[Len(s)] ELSE NUL

\* a terminal test that knows the full stop only
token_ends_with_period(s) == last_char(s) = "."
\* token_ends_a_sentence of a character sequence
token_ends_a_sentence(s) ==
  last_char(s) = "." \/ last_char(s) = "?" \/ last_char(s) = "!"

\* an ends_with_char that accepts any terminal punctuation
ends_with_any(s, c) == token_ends_a_sentence(s)
ends_with_char(s, c) == last_char(s) = c

-----------------------------------------------------------------------------
(* hash_str: djb2 with xor, over a 64-bit unsigned long kept as four 16-bit *)
(* limbs, least significant first                                          *)

RECURSIVE Xor(_, _)
Xor(a, b) ==
  IF a = 0 THEN b
  ELSE IF b = 0 THEN a
  ELSE 2 * Xor(a \div 2, b \div 2) + (((a % 2) + (b % 2)) % 2)

\* h = ((h << 5) + h) ^ c
hash_step(h, c) ==
  LET t0 == h[1] * 33
      t1 == (h[2] * 33) + (t0 \div 65536)
      t2 == (h[3] * 33) + (t1 \div 65536)
      t3 == (h[4] * 33) + (t2 \div 65536)
  IN  <<Xor(t0 % 65536, c), t1 % 65536, t2 % 65536, t3 % 65536>>

RECURSIVE hash_from(_, _)
hash_from(h, p) ==
  IF CharAt(p) = NUL THEN h ELSE hash_from(hash_step(h, Ord(CharAt(p))), p + 1)

hash_str(s) == hash_from(<<5381, 0, 0, 0>>, s)

\* h % m for a limb value h
LimbMod(h, m) ==
  LET r3 == h[4] % m
      r2 == ((r3 * 65536) + h[3]) % m
      r1 == ((r2 * 65536) + h[2]) % m
  IN  ((r1 * 65536) + h[1]) % m

\* hash_str(s) % HASH_SIZE
hash_slot(s) == LimbMod(hash_str(s), HASH_SIZE)

-----------------------------------------------------------------------------
(* The interning table, as a record M of the model variables *)

Model ==
  [tokens |-> tokens, tokens_size |-> tokens_size, tokens_cap |-> tokens_cap,
   hash_index |-> hash_index, succs |-> succs, succs_sizes |-> succs_sizes,
   succs_caps |-> succs_caps, edges |-> edges, aborted |-> FALSE]

ensure_tokens_capacity(M) ==
  IF M.tokens_size >= M.tokens_cap
  THEN [M EXCEPT !.tokens_cap = IF @ # 0 THEN @ * 2 ELSE TOKENS_INIT_CAP]
  ELSE M

RECURSIVE find_probe(_, _, _, _)
find_probe(M, s, h, probe) ==
  IF probe >= HASH_SIZE THEN -1
  ELSE LET i == (h + probe) % HASH_SIZE
           id == M.hash_index[i]
       IN  IF id = -1 THEN -1
           ELSE IF M.tokens[id + 1] # NULL /\ streq(M.tokens[id + 1], s) THEN id
           ELSE find_probe(M, s, h, probe + 1)

hash_find_never(M, s) == -1
hash_find(M, s) == find_probe(M, s, hash_slot(s), 0)

RECURSIVE insert_probe_backward(_, _, _, _)
\* a hash_insert that probes downwards from the home slot
insert_probe_backward(M, h, id, probe) ==
  IF probe >= HASH_SIZE THEN [M EXCEPT !.aborted = TRUE]
  ELSE LET i == ((h + HASH_SIZE) - probe) % HASH_SIZE
       IN  IF M.hash_index[i] = -1
           THEN [M EXCEPT !.hash_index[i] = id]
           ELSE insert_probe_backward(M, h, id, probe + 1)

RECURSIVE insert_probe(_, _, _, _)
insert_probe(M, h, id, probe) ==
  IF probe >= HASH_SIZE THEN [M EXCEPT !.aborted = TRUE]
  ELSE LET i == (h + probe) % HASH_SIZE
       IN  IF M.hash_index[i] = -1
           THEN [M EXCEPT !.hash_index[i] = id]
           ELSE insert_probe(M, h, id, probe + 1)

\* a hash_insert that writes the home slot whatever it holds
hash_insert_overwrite(M, s, id) == [M EXCEPT !.hash_index[hash_slot(s)] = id]
hash_insert(M, s, id) == insert_probe(M, hash_slot(s), id, 0)

RECURSIVE find_examined(_, _, _, _)
\* lines 112-117: the slots the loop of hash_find examines
find_examined(M, s, h, probe) ==
  IF probe >= HASH_SIZE THEN probe
  ELSE LET id == M.hash_index[(h + probe) % HASH_SIZE]
       IN  IF id = -1 THEN probe + 1
           ELSE IF M.tokens[id + 1] # NULL /\ streq(M.tokens[id + 1], s)
           THEN probe + 1
           ELSE find_examined(M, s, h, probe + 1)

hash_find_probes(M, s) == find_examined(M, s, hash_slot(s), 0)

RECURSIVE insert_examined(_, _, _)
\* lines 123-129: the slots the loop of hash_insert examines
insert_examined(M, h, probe) ==
  IF probe >= HASH_SIZE THEN probe
  ELSE IF M.hash_index[(h + probe) % HASH_SIZE] = -1 THEN probe + 1
  ELSE insert_examined(M, h, probe + 1)

hash_insert_probes(M, s) == insert_examined(M, hash_slot(s), 0)

\* a token_id that leaves the new identifier out of the hash index
token_id_no_index(M, t) ==
  LET found == hash_find(M, t)
  IN  IF found >= 0 THEN [id |-> found, M |-> M]
      ELSE [id |-> M.tokens_size,
            M |-> [ensure_tokens_capacity(M) EXCEPT
                     !.tokens_size = @ + 1,
                     !.tokens = Append(@, t),
                     !.succs = Append(@, <<>>),
                     !.succs_sizes = Append(@, 0),
                     !.succs_caps = Append(@, 0)]]

\* token_id: the identifier and the table after the call
token_id(M, t) ==
  LET found == hash_find(M, t)
  IN  IF found >= 0 THEN [id |-> found, M |-> M]
      ELSE LET M1 == ensure_tokens_capacity(M)
               id == M1.tokens_size
               M2 == [M1 EXCEPT !.tokens_size = id + 1,
                                !.tokens = Append(@, t),
                                !.succs = Append(@, <<>>),
                                !.succs_sizes = Append(@, 0),
                                !.succs_caps = Append(@, 0)]
           IN  [id |-> id, M |-> hash_insert(M2, t, id)]

\* append_to_succs that keeps one entry per successor spelling
append_to_succs_dedup(M, p, c) ==
  LET r == token_id(M, p)
      M1 == r.M
      seen == \E k \in 1..Len(M1.succs[r.id + 1]) :
                streq(M1.succs[r.id + 1][k], c)
  IN  IF M1.aborted THEN M1
      ELSE [M1 EXCEPT !.succs_caps[r.id + 1] = INIT_SUCC_CAP,
                      !.succs[r.id + 1] = IF seen THEN @ ELSE Append(@, c),
                      !.succs_sizes[r.id + 1] = IF seen THEN @ ELSE @ + 1,
                      !.edges = Append(@, <<CStr(p), CStr(c)>>)]

\* append_to_succs: the table after the call
append_to_succs(M, p, c) ==
  LET r == token_id(M, p)
      pid == r.id
      M1 == r.M
      cap == IF M1.succs_caps[pid + 1] = 0 THEN INIT_SUCC_CAP
             ELSE IF M1.succs_sizes[pid + 1] >= M1.succs_caps[pid + 1]
                  THEN M1.succs_caps[pid + 1] * 2
                  ELSE M1.succs_caps[pid + 1]
  IN  IF M1.aborted THEN M1
      ELSE [M1 EXCEPT !.succs_caps[pid + 1] = cap,
                      !.succs[pid + 1] = Append(@, c),
                      !.succs_sizes[pid + 1] = @ + 1,
                      !.edges = Append(@, <<CStr(p), CStr(c)>>)]

-----------------------------------------------------------------------------
(* strtok_r *)

Delimiters == {" ", "\n", "\r"}

\* a strspn that skips one delimiter at most
skip_one_delim(p, delim) == IF CharAt(p) \in delim THEN p + 1 ELSE p

RECURSIVE skip_delims(_, _)
\* s + strspn(s, delim)
skip_delims(p, delim) ==
  IF CharAt(p) \in delim THEN skip_delims(p + 1, delim) ELSE p

RECURSIVE skip_token(_, _)
\* s + strcspn(s, delim)
skip_token(p, delim) ==
  IF CharAt(p) = NUL \/ CharAt(p) \in delim THEN p ELSE skip_token(p + 1, delim)

\* strtok_r from position s: the token, the new saveptr and the new buffer
strtok_r(s, delim) ==
  LET b == skip_delims(s, delim)
      e == skip_token(b, delim)
  IN  IF CharAt(b) = NUL THEN [tok |-> NULL, saveptr |-> b, book |-> book_mut]
      ELSE IF CharAt(e) = NUL THEN [tok |-> b, saveptr |-> e, book |-> book_mut]
      ELSE [tok |-> b, saveptr |-> e + 1, book |-> [book_mut EXCEPT ![e] = NUL]]

-----------------------------------------------------------------------------
(* Inputs *)

\* the sequences over S of length at most n
SeqsUpTo(S, n) == UNION {[1..k -> S] : k \in 0..n}

RECURSIVE Join(_)
\* the words of ws, separated by single spaces
Join(ws) ==
  IF Len(ws) = 0 THEN <<>>
  ELSE IF Len(ws) = 1 THEN ws[1]
  ELSE ws[1] \o <<" ">> \o Join(Tail(ws))

\* corpora of the whole program: few words, with and without a leading
\* uppercase letter, with and without terminal punctuation
WalkWords == {<<"A">>, <<"b">>, <<"C", "?">>, <<"d", "!">>}
WalkTexts == {Join(ws) : ws \in SeqsUpTo(WalkWords, MaxTokens)}

\* corpora of the build pass: every short text over letters and the three
\* delimiters, longer texts of one-letter words, and the text of the
\* tokenizer's documented example
BuildChars == {"a", " ", "\n", "\r"}
BuildWords == {<<"a">>, <<"b">>, <<"c">>}
AliceText ==
  <<"A", "l", "i", "c", "e", " ", "s", "a", "w", " ", "B", "o", "b", ".", " ",
    "B", "o", "b", " ", "r", "a", "n", "!">>
BuildTexts ==
  SeqsUpTo(BuildChars, MaxBuildChars)
    \cup {Join(ws) : ws \in SeqsUpTo(BuildWords, MaxBuildTokens)}
    \cup {AliceText}

\* corpora that fill the hash index: HASH_SIZE distinct one-letter words in
\* any rotation of the alphabet below, then one of them again, then one more
\* distinct word; and every prefix of such a text ("a", "o" and "s" hash to
\* one slot of six, "n" and "r" to the next, which is the last)
FullLetters == <<"a", "n", "o", "b", "r", "c", "s", "d", "f", "e", "h", "i">>
FullWord(r, k) == <<FullLetters[((k - 1 + r) % (HASH_SIZE + 1)) + 1]>>
FullWords(r, j) ==
  [k \in 1..(HASH_SIZE + 2) |->
     IF k <= HASH_SIZE THEN FullWord(r, k)
     ELSE IF k = HASH_SIZE + 1 THEN FullWord(r, j)
     ELSE FullWord(r, HASH_SIZE + 1)]
FullTexts ==
  {Join(SubSeq(FullWords(r, j), 1, n)) :
     r \in 0..HASH_SIZE, j \in 1..HASH_SIZE, n \in 0..(HASH_SIZE + 2)}

\* the corpus of the documented end-to-end scenario, and its one sentence
\* that ends in a question mark
ScenarioText ==
  <<"W", "h", "o", " ", "a", "r", "e", " ", "y", "o", "u", "?", " ",
    "R", "u", "n", " ", "a", "w", "a", "y", "!", " ",
    "R", "u", "n", " ", "f", "a", "s", "t", ".">>
ScenarioQuestion ==
  <<"W", "h", "o", " ", "a", "r", "e", " ", "y", "o", "u", "?">>

\* what an unwritten buffer may hold when generate_sentence leaves it alone
Garbage == {<<>>, <<"?">>, <<"a">>}

\* the state at the call of tokenize_and_fill_succs: the book is loaded,
\* hash_init and ensure_tokens_capacity have run
InitWith(text, size, buf) ==
  /\ book = text
  /\ book_mut = text \o <<NUL>>
  /\ saveptr = NULL
  /\ prev = NULL
  /\ tok = NULL
  /\ tokens = <<>>
  /\ tokens_size = 0
  /\ tokens_cap = TOKENS_INIT_CAP
  /\ hash_index = [i \in 0..(HASH_SIZE - 1) |-> -1]
  /\ succs = <<>>
  /\ succs_sizes = <<>>
  /\ succs_caps = <<>>
  /\ pc = "begin"
  /\ mark = "?"
  /\ tries = 0
  /\ printed = <<>>
  /\ out_size = size
  /\ out = buf
  /\ attempts = 0
  /\ start_id = 0
  /\ token = NULL
  /\ steps = 0
  /\ reason = "none"
  /\ oob = FALSE
  /\ yielded = <<>>
  /\ edges = <<>>
  /\ returned = {}

Init ==
  \E text \in WalkTexts, size \in 0..MaxOutSize :
    \E buf \in (IF size = 0 THEN Garbage ELSE {<<>>}) :
      InitWith(text, size, buf)

InitBuild == \E text \in BuildTexts : InitWith(text, MaxOutSize, <<>>)

InitFull == \E text \in FullTexts : InitWith(text, MaxOutSize, <<>>)

-----------------------------------------------------------------------------
(* tokenize_and_fill_succs *)

SetModel(M) ==
  /\ tokens' = M.tokens
  /\ tokens_size' = M.tokens_size
  /\ tokens_cap' = M.tokens_cap
  /\ hash_index' = M.hash_index
  /\ succs' = M.succs
  /\ succs_sizes' = M.succs_sizes
  /\ succs_caps' = M.succs_caps
  /\ edges' = M.edges

\* lines 172-174: the first strtok_r, on str
TokenizeBegin ==
  /\ pc = "begin"
  /\ LET r == strtok_r(1, Delimiters)
     IN  /\ tok' = r.tok
         /\ saveptr' = r.saveptr
         /\ book_mut' = r.book
  /\ prev' = NULL
  /\ pc' = "tokenize"
  /\ UNCHANGED <<modelVars, driverVars, walkVars, inputVars, yielded, edges>>

\* the table after one iteration's token_id and append_to_succs
tokenize_body_no_first(M, p, t) ==
  IF p # NULL THEN append_to_succs(M, p, t) ELSE M
tokenize_body(M, p, t) ==
  LET M1 == token_id(M, t).M
  IN  IF M1.aborted \/ p = NULL THEN M1 ELSE append_to_succs(M1, p, t)

\* lines 175-180: one iteration of the loop
TokenizeStep ==
  /\ pc = "tokenize"
  /\ tok # NULL
  /\ LET M2 == tokenize_body(Model, prev, tok)
         r == strtok_r(saveptr, Delimiters)
     IN  /\ SetModel(M2)
         /\ yielded' = Append(yielded, CStr(tok))
         /\ IF M2.aborted
            THEN /\ pc' = "aborted"
                 /\ UNCHANGED <<book_mut, saveptr, prev, tok>>
            ELSE /\ pc' = "tokenize"
                 /\ prev' = tok
                 /\ tok' = r.tok
                 /\ saveptr' = r.saveptr
                 /\ book_mut' = r.book
  /\ UNCHANGED <<driverVars, walkVars, inputVars>>

\* line 175: the loop ends, the function returns to main
TokenizeEnd ==
  /\ pc = "tokenize"
  /\ tok = NULL
  /\ pc' = "loop"
  /\ UNCHANGED <<buildVars, modelVars, driverVars, walkVars, inputVars, edges>>

NextBuild == TokenizeBegin \/ TokenizeStep \/ TokenizeEnd

\* the build pass alone, over the wider set of corpora
SpecBuild == InitBuild /\ [][NextBuild]_vars

\* the build pass over the corpora that fill the hash index
SpecFull == InitFull /\ [][NextBuild]_vars

-----------------------------------------------------------------------------
(* random_token_id_that_starts_a_sentence and generate_sentence *)

\* strncat(dst, src, n) on character sequences
strncat(dst, src, n) ==
  dst \o SubSeq(src, 1, IF Len(src) < n THEN Len(src) ELSE n)

RECURSIVE scan_capitalized(_)
\* lines 204-208: the first identifier from i on whose spelling starts with
\* an uppercase letter, 0 when there is none
scan_capitalized(i) ==
  IF i >= tokens_size THEN 0
  ELSE IF isupper_alpha(CharAt(tokens[i + 1])) THEN i
  ELSE scan_capitalized(i + 1)

first_capitalized == scan_capitalized(0)

\* line 227: need
walk_need_no_nul(o, n) == Len(o) + Len(n)
walk_need(o, n) == Len(o) + 1 + Len(n) + 1

\* lines 230-231: strcat(out, " "); strcat(out, next)
append_nothing(o, n) == o
append_no_space(o, n) == o \o n
append_next(o, n) == o \o <<" ">> \o n

\* line 216: whether tokens[start_id] is read
reads_start_always(size) == TRUE
reads_start(size) == size # 0

\* the call returns
Return(why) ==
  /\ pc' = "ret"
  /\ reason' = why

\* an array is read at an index >= tokens_size: the behaviour is undefined
Undefined ==
  /\ pc' = "undefined"
  /\ oob' = TRUE

\* lines 216-218, with the identifier the start selection returned
EmitStart(id) ==
  IF reads_start(tokens_size) /\ id >= tokens_size
  THEN /\ Undefined
       /\ start_id' = id
       /\ UNCHANGED <<out, token, steps, reason, attempts>>
  ELSE LET t == IF reads_start(tokens_size) THEN tokens[id + 1] ELSE EmptyLiteral
       IN  /\ start_id' = id
           /\ token' = t
           /\ out' = strncat(out, CStr(t), out_size - 1)
           /\ IF token_ends_a_sentence(CStr(t))
              THEN Return("terminal")
              ELSE pc' = "walk" /\ reason' = "none"
           /\ UNCHANGED <<steps, attempts, oob>>

\* lines 278-279 and 287-288, 212-213: the driver calls generate_sentence
Call ==
  /\ pc = "loop"
  /\ tries < MaxTries
  /\ steps' = 0
  /\ attempts' = 0
  /\ IF out_size = 0
     THEN /\ Return("zero")
          /\ UNCHANGED out
     ELSE /\ pc' = "pick"
          /\ reason' = "none"
          /\ out' = <<>>
  /\ UNCHANGED <<inputVars, buildVars, modelVars, driverVars, start_id, token,
                 oob, edges>>

\* lines 197-202: one random draw
Draw ==
  /\ pc = "pick"
  /\ attempts < MaxAttempts
  /\ tokens_size # 0
  /\ \E i \in 0..(tokens_size - 1) :
       IF isupper_alpha(CharAt(tokens[i + 1]))
       THEN EmitStart(i)
       ELSE /\ attempts' = attempts + 1
            /\ UNCHANGED <<pc, out, start_id, token, steps, reason, oob>>
  /\ UNCHANGED <<inputVars, buildVars, modelVars, driverVars, edges>>

\* lines 198 and 204-208: no draw is left, or there is nothing to draw from
Fallback ==
  /\ pc = "pick"
  /\ attempts >= MaxAttempts \/ tokens_size = 0
  /\ EmitStart(first_capitalized)
  /\ UNCHANGED <<inputVars, buildVars, modelVars, driverVars, edges>>

\* lines 220-234: one iteration of the walk
WalkStep ==
  /\ pc = "walk"
  /\ IF ~(Len(out) + 2 < out_size)
     THEN /\ Return("size")
          /\ UNCHANGED <<modelVars, edges, out, token, steps, oob>>
     ELSE LET r == token_id(Model, token)
              M1 == r.M
              curr_id == r.id
          IN  /\ SetModel(M1)
              /\ IF M1.aborted
                 THEN /\ pc' = "aborted"
                      /\ UNCHANGED <<out, token, steps, reason, oob>>
                 ELSE IF curr_id >= M1.tokens_size
                 THEN /\ Undefined
                      /\ UNCHANGED <<out, token, steps, reason>>
                 ELSE IF M1.succs_sizes[curr_id + 1] = 0
                 THEN /\ Return("dead_end")
                      /\ UNCHANGED <<out, token, steps, oob>>
                 ELSE \E k \in 0..(M1.succs_sizes[curr_id + 1] - 1) :
                        LET next == M1.succs[curr_id + 1][k + 1]
                        IN  IF walk_need(out, CStr(next)) >= out_size
                            THEN /\ Return("size")
                                 /\ UNCHANGED <<out, token, steps, oob>>
                            ELSE /\ out' = append_next(out, CStr(next))
                                 /\ token' = next
                                 /\ steps' = steps + 1
                                 /\ IF token_ends_a_sentence(CStr(next))
                                    THEN Return("terminal")
                                    ELSE UNCHANGED <<pc, reason>>
                                 /\ UNCHANGED oob
  /\ UNCHANGED <<inputVars, buildVars, driverVars, attempts, start_id>>

-----------------------------------------------------------------------------
(* main: the two rejection-sampling loops *)

\* the loop for the current mark is left: the next loop, or the end
NextMark ==
  IF mark = "?"
  THEN mark' = "!" /\ tries' = 0 /\ pc' = "loop"
  ELSE pc' = "done" /\ UNCHANGED <<mark, tries>>

\* lines 280-283 and 289-292: the driver reads the returned buffer; the
\* locals of the call are gone. The history of the returned walks is kept
\* when record is set.
DriverReturn(record) ==
  /\ pc = "ret"
  /\ IF ends_with_char(out, mark)
     THEN /\ printed' = Append(printed, out)
          /\ NextMark
     ELSE /\ tries' = tries + 1
          /\ pc' = "loop"
          /\ UNCHANGED <<mark, printed>>
  /\ returned' = IF record THEN returned \cup {<<out, reason>>} ELSE returned
  /\ attempts' = 0
  /\ start_id' = 0
  /\ token' = NULL
  /\ steps' = 0
  /\ reason' = "none"
  /\ UNCHANGED <<inputVars, buildVars, modelVars, edges, out, oob>>

DriverCheck == DriverReturn(FALSE)
DriverCheckRecorded == DriverReturn(TRUE)

\* lines 278 and 287: the retries of the current mark are used up
LoopExit ==
  /\ pc = "loop"
  /\ tries >= MaxTries
  /\ NextMark
  /\ UNCHANGED <<inputVars, buildVars, modelVars, edges, printed, returned,
                 walkVars>>

Next ==
  \/ TokenizeBegin
  \/ TokenizeStep
  \/ TokenizeEnd
  \/ Call
  \/ Draw
  \/ Fallback
  \/ WalkStep
  \/ DriverCheck
  \/ LoopExit

\* the whole program
Spec == Init /\ [][Next]_vars

\* the whole program on the corpus of the scenario, for every size of the
\* output buffer up to the length of the corpus and its terminator
InitScenario ==
  \E size \in 1..(Len(ScenarioText) + 1) : InitWith(ScenarioText, size, <<>>)

SpecScenario == InitScenario /\ [][Next]_vars

NextReport ==
  \/ TokenizeBegin
  \/ TokenizeStep
  \/ TokenizeEnd
  \/ Call
  \/ Draw
  \/ Fallback
  \/ WalkStep
  \/ DriverCheckRecorded
  \/ LoopExit

\* the whole program, with the history of the walks that have returned
SpecReport == Init /\ [][NextReport]_vars

-----------------------------------------------------------------------------
(* What the build pass is to compute, stated on the text as loaded *)

Nth(S, k) == CHOOSE x \in S : Cardinality({y \in S : y < x}) = k - 1
\* the numbers of S in ascending order
Sorted(S) == [k \in 1..Cardinality(S) |-> Nth(S, k)]

\* where a maximal run of non-delimiter characters starts, and where it ends
RunStarts(text) ==
  {i \in 1..Len(text) :
     text[i] \notin Delimiters /\ (i = 1 \/ text[i - 1] \in Delimiters)}
RunEnd(text, i) ==
  CHOOSE j \in i..Len(text) :
    /\ \A k \in i..j : text[k] \notin Delimiters
    /\ j = Len(text) \/ text[j + 1] \in Delimiters

\* the maximal non-empty runs of non-delimiter characters, left to right
RefTokens(text) ==
  LET st == Sorted(RunStarts(text))
  IN  [k \in 1..Len(st) |-> SubSeq(text, st[k], RunEnd(text, st[k]))]

\* the consecutive pairs of ts
RefPairs(ts) == [i \in 1..(Len(ts) - 1) |-> <<ts[i], ts[i + 1]>>]

\* the distinct elements of ts in the order of their first occurrence
RefVocabulary(ts) ==
  LET f == Sorted({i \in 1..Len(ts) : \A j \in 1..(i - 1) : ts[j] # ts[i]})
  IN  [k \in 1..Len(f) |-> ts[f[k]]]

\* what follows each occurrence of s in ts, in order
RefSuccessors(ts, s) ==
  LET P == Sorted({i \in 1..(Len(ts) - 1) : ts[i] = s})
  IN  [k \in 1..Len(P) |-> ts[P[k] + 1]]

\* the spelling of an identifier, and of each entry of its successor list
Spelling(id) == CStr(tokens[id + 1])
SuccSpellings(id) == [k \in 1..Len(succs[id + 1]) |-> CStr(succs[id + 1][k])]

\* the candidates for a spelling: the address of every run of the text and
\* of the literal "", where it holds a C string of at most MaxSpellingLen
\* characters (a run not yet scanned extends to the end of the buffer)
Ptrs ==
  {p \in RunStarts(book) \cup {EmptyLiteral} : strlen(p) <= MaxSpellingLen}

\* tokenize_and_fill_succs has just returned
Tokenized == pc = "loop" /\ mark = "?" /\ tries = 0

-----------------------------------------------------------------------------
(* Claims about the build pass, checked under SpecBuild *)

\* C1: interning is idempotent. From every state of the build pass, for any
\* two addresses p, q holding the same spelling, token_id(p) followed by
\* token_id(q) returns the same identifier twice, the second call leaves the
\* whole table as the first left it (tokens_size included), and hash_find(q)
\* after the first call returns that identifier.
C1_InternIdempotent ==
  pc # "aborted" =>
    LET P == Ptrs
    IN  \A p \in P :
          LET r1 == token_id(Model, p)
          IN  ~r1.M.aborted =>
                \A q \in {x \in P : CStr(x) = CStr(p)} :
                  /\ token_id(r1.M, q) = r1
                  /\ hash_find(r1.M, q) = r1.id

\* a spelling that occurs at two addresses has been interned, among others
C1_Witness ==
  /\ tokens_size >= 2
  /\ \E p \in Ptrs, q \in Ptrs :
       /\ p # q
       /\ CStr(p) = CStr(q)
       /\ CStr(p) # <<>>
       /\ hash_find(Model, p) >= 0
       /\ token_id(Model, q).id = hash_find(Model, p)

UniqueSpellings ==
  /\ Len(tokens) = tokens_size
  /\ \A i \in 0..(tokens_size - 1), j \in 0..(tokens_size - 1) :
       i # j => Spelling(i) # Spelling(j)
  /\ pc # "aborted" =>
       \A p \in Ptrs :
         LET f == hash_find(Model, p)
         IN  IF f >= 0 THEN f < tokens_size /\ Spelling(f) = CStr(p)
             ELSE \A i \in 0..(tokens_size - 1) : Spelling(i) # CStr(p)

StableSpellings ==
  /\ tokens_size' >= tokens_size
  /\ \A i \in 1..tokens_size :
       CStrIn(book_mut', tokens'[i]) = CStrIn(book_mut, tokens[i])

\* C2: interning is unique. In every state the spellings of tokens[0..
\* tokens_size-1] are pairwise distinct, hash_find maps a spelling to the one
\* identifier that has it and to -1 when none has, and no step changes the
\* spelling of an identifier already assigned.
C2_InternUnique == [](UniqueSpellings) /\ [][StableSpellings]_vars

\* three spellings are interned and some spelling has been seen twice
C2_Witness == Tokenized /\ tokens_size >= 3 /\ Len(yielded) > tokens_size

\* C3: identifiers are dense, zero-based and in first-occurrence order. After
\* tokenizing, the k-th distinct run of the text in order of first occurrence
\* has identifier k-1, tokens_size is the number of distinct runs, and the
\* identifiers held by the hash index are exactly 0..tokens_size-1.
C3_DenseFirstOccurrence ==
  Tokenized =>
    LET ref == RefVocabulary(RefTokens(book))
    IN  /\ tokens_size = Len(ref)
        /\ Len(tokens) = tokens_size
        /\ \A k \in 1..Len(ref) :
             Spelling(k - 1) = ref[k] /\ hash_find(Model, tokens[k]) = k - 1
        /\ {hash_index[i] : i \in 0..(HASH_SIZE - 1)} \ {-1}
             = 0..(tokens_size - 1)

\* a text with a repeated spelling and enough spellings to grow the array
C3_Witness ==
  /\ Tokenized
  /\ tokens_size >= 3
  /\ Len(yielded) > tokens_size
  /\ tokens_cap > TOKENS_INIT_CAP

\* C4: successor frequency fidelity. After tokenizing, the successor list of
\* every identifier A spells exactly the runs that follow each occurrence of
\* A's spelling in the text, in scan order, one entry per occurrence, and
\* succs_sizes is its length; a spelling that never precedes another has an
\* empty list.
C4_SuccessorFidelity ==
  Tokenized =>
    LET ref == RefTokens(book)
    IN  /\ \A i \in 1..Len(ref) : \E id \in 0..(tokens_size - 1) : Spelling(id) = ref[i]
        /\ \A id \in 0..(tokens_size - 1) :
             /\ SuccSpellings(id) = RefSuccessors(ref, Spelling(id))
             /\ succs_sizes[id + 1] = Len(succs[id + 1])
             /\ succs_caps[id + 1] >= succs_sizes[id + 1]
             /\ (\A i \in 1..(Len(ref) - 1) : ref[i] # Spelling(id))
                  => succs_sizes[id + 1] = 0

\* A is followed by B twice and by C once, and some identifier is a dead end
C4_Witness ==
  /\ Tokenized
  /\ \E A \in 0..(tokens_size - 1) :
       /\ succs_sizes[A + 1] = 3
       /\ \E i \in 1..3, j \in 1..3, k \in 1..3 :
            /\ i < j
            /\ k # i
            /\ k # j
            /\ SuccSpellings(A)[i] = SuccSpellings(A)[j]
            /\ SuccSpellings(A)[k] # SuccSpellings(A)[i]
  /\ \E D \in 0..(tokens_size - 1) : succs_sizes[D + 1] = 0

\* C5: tokenizer coverage. At every point of the scan the tokens yielded so
\* far are the first maximal runs of non-delimiter characters of the text,
\* in order and never empty, and the recorded edges are exactly their
\* consecutive pairs, in order; at the end all runs have been yielded. For
\* "Alice saw Bob. Bob ran!" that is five tokens and four edges.
C5_TokenizerCoverage ==
  pc # "aborted" =>
    LET ref == RefTokens(book)
    IN  /\ Len(yielded) <= Len(ref)
        /\ yielded = SubSeq(ref, 1, Len(yielded))
        /\ \A i \in 1..Len(yielded) : yielded[i] # <<>>
        /\ edges = RefPairs(yielded)
        /\ Tokenized => yielded = ref
        /\ (Tokenized /\ book = AliceText) =>
             /\ yielded = << <<"A", "l", "i", "c", "e">>, <<"s", "a", "w">>,
                             <<"B", "o", "b", ".">>, <<"B", "o", "b">>,
                             <<"r", "a", "n", "!">> >>
             /\ edges = << << <<"A", "l", "i", "c", "e">>, <<"s", "a", "w">> >>,
                           << <<"s", "a", "w">>, <<"B", "o", "b", ".">> >>,
                           << <<"B", "o", "b", ".">>, <<"B", "o", "b">> >>,
                           << <<"B", "o", "b">>, <<"r", "a", "n", "!">> >> >>

\* the documented example has been tokenized
C5_Witness == Tokenized /\ book = AliceText /\ Len(yielded) = 5 /\ Len(edges) = 4

\* runs of delimiters, leading and trailing ones included, have been skipped
C5_WitnessRuns ==
  /\ Tokenized
  /\ Len(yielded) >= 1
  /\ book[1] \in Delimiters
  /\ book[Len(book)] \in Delimiters
  /\ \E i \in 1..(Len(book) - 1) : book[i] = "\n" /\ book[i + 1] = "\r"

-----------------------------------------------------------------------------
(* Claims about the sampler, checked under Spec *)

\* a call of generate_sentence is past its start selection
InWalk == pc = "walk" \/ (pc = "ret" /\ reason # "zero")

\* the length of the shortest interned spelling
ShortestLen ==
  CHOOSE n \in {strlen(tokens[i]) : i \in 1..tokens_size} :
    \A i \in 1..tokens_size : n <= strlen(tokens[i])

StepsBound ==
  InWalk =>
    IF tokens_size = 0 THEN steps = 0
    ELSE /\ steps * ShortestLen <= out_size
         /\ steps * (ShortestLen + 1) <= Len(out)

WalkProgress ==
  (pc = "walk" /\ pc' = "walk") =>
    /\ steps' = steps + 1
    /\ Len(out') >= Len(out) + 2

WalkBounded == pc = "walk" => Len(out) < out_size

\* C6: walk termination. While a walk runs its output is shorter than
\* out_size, and an iteration that does not end the walk appends one
\* successor and makes the output at least two characters longer, so the
\* walk ends after finitely many iterations, on a cyclic graph too; and the
\* number of successors appended is at most out_size divided by the length
\* of the shortest spelling.
C6_WalkTerminates ==
  /\ [](StepsBound)
  /\ [](WalkBounded)
  /\ [][WalkProgress]_vars

\* a walk over a cycle has been cut off by the size bound after two steps
C6_Witness ==
  /\ pc = "ret"
  /\ reason = "size"
  /\ steps >= 2
  /\ \E id \in 0..(tokens_size - 1) :
       \E k \in 1..succs_sizes[id + 1] : CStr(succs[id + 1][k]) = Spelling(id)

\* C7: no overflow of the output buffer. For every out_size >= 1 the output
\* and its terminator occupy at most out_size bytes at every point of every
\* walk.
C7_NoOverflow == out_size >= 1 => Len(out) + 1 <= out_size

\* the start token has been truncated to the size of the buffer
C7_Witness ==
  /\ pc = "ret"
  /\ out_size >= 2
  /\ steps = 0
  /\ token # NULL
  /\ strlen(token) > Len(out)
  /\ Len(out) = out_size - 1

\* C8: terminal detection. When a call with out_size >= 1 has returned, the
\* last character of its output is one of . ? ! exactly when the walk stopped
\* because the last token it emitted ends a sentence.
C8_TerminalDetection ==
  (pc = "ret" /\ out_size >= 1) =>
    (token_ends_a_sentence(out) <=> reason = "terminal")

\* C9: the sampler only reads the model. No step taken after the build pass
\* changes tokens_size, the tokens table, the hash index or a successor list,
\* its size or its capacity.
C9_SamplerReadsOnly ==
  [][(pc \notin {"begin", "tokenize"}) =>
       UNCHANGED <<tokens, tokens_size, hash_index, succs, succs_sizes,
                   succs_caps>>]_vars

\* the identifiers whose spelling begins with an uppercase letter
UpperIds ==
  {i \in 0..(tokens_size - 1) : isupper_alpha(CharAtIn(book_mut, tokens[i + 1]))}

\* C10: start selection. The draws are bounded and no array is ever read at
\* an index >= tokens_size, so the selection returns and the walk completes;
\* if some spelling begins with an uppercase letter the start identifier is
\* below tokens_size and its spelling begins with one, and after MaxAttempts
\* missed draws it is the smallest such identifier; otherwise it is 0.
C10_StartSelection ==
  /\ attempts <= MaxAttempts
  /\ ~oob
  /\ pc # "undefined"
  /\ InWalk =>
       IF UpperIds # {}
       THEN /\ start_id \in UpperIds
            /\ attempts = MaxAttempts =>
                 \A i \in UpperIds : start_id <= i
       ELSE start_id = 0

\* every draw missed and the scan returned an identifier other than 0
C10_Witness ==
  /\ InWalk
  /\ attempts = MaxAttempts
  /\ start_id > 0
  /\ start_id \in UpperIds
  /\ \A i \in UpperIds : start_id <= i

\* the vocabulary is empty and the walk has returned
C10_WitnessEmpty == pc = "ret" /\ reason = "dead_end" /\ Len(yielded) = 0

-----------------------------------------------------------------------------
(* Claims about the hash index when it fills up, checked under SpecFull.    *)
(* pc = "aborted" is the state after hash_insert has written "Hash table   *)
(* full" to stderr and called exit(1).                                     *)

\* the distinct spellings among the tokens yielded so far
YieldedSpellings == {yielded[i] : i \in 1..Len(yielded)}

\* the slots of the hash index that hold an identifier
Occupied == {i \in 0..(HASH_SIZE - 1) : hash_index[i] # -1}

FullHandled ==
  /\ tokens_size <= HASH_SIZE + 1
  /\ Cardinality(YieldedSpellings) <= HASH_SIZE => pc # "aborted"
  /\ pc = "aborted" =>
       /\ Cardinality(YieldedSpellings) = HASH_SIZE + 1
       /\ Cardinality(Occupied) = HASH_SIZE
       /\ {hash_index[i] : i \in 0..(HASH_SIZE - 1)} = 0..(HASH_SIZE - 1)
  /\ pc # "aborted" =>
       /\ tokens_size <= HASH_SIZE
       /\ \A id \in 0..(tokens_size - 1) :
            hash_find(Model, tokens[id + 1]) = id
       /\ \A p \in Ptrs :
            LET r == token_id(Model, p)
                known == \E id \in 0..(tokens_size - 1) : Spelling(id) = CStr(p)
            IN  /\ hash_find_probes(Model, p) <= HASH_SIZE
                /\ hash_insert_probes(Model, p) <= HASH_SIZE
                /\ known => (~r.M.aborted /\ Spelling(r.id) = CStr(p))
                /\ (~known /\ tokens_size < HASH_SIZE) =>
                     (~r.M.aborted /\ r.id = tokens_size)
                /\ (~known /\ tokens_size = HASH_SIZE) =>
                     /\ r.M.aborted
                     /\ r.M.hash_index = hash_index
                     /\ hash_find_probes(Model, p) = HASH_SIZE
                     /\ hash_insert_probes(r.M, p) = HASH_SIZE

NoOverwrite ==
  /\ pc # "aborted"
  /\ \A i \in 0..(HASH_SIZE - 1) :
       hash_index[i] # -1 => hash_index'[i] = hash_index[i]

\* C11: table-full handling. hash_find and hash_insert examine at most
\* HASH_SIZE slots; interning succeeds for each of the first HASH_SIZE
\* distinct spellings; interning one more spelling when every slot is
\* occupied ends the program with "Hash table full", leaves the hash index as
\* it was and takes no further step; no step overwrites an occupied slot;
\* and a spelling already interned is still found in the full table.
C11_TableFull == [](FullHandled) /\ [][NoOverwrite]_vars

\* the table was full, a spelling seen before was looked up in it, and the
\* next new spelling ended the program
C11_Witness ==
  /\ pc = "aborted"
  /\ Len(yielded) = HASH_SIZE + 2
  /\ Cardinality(Occupied) = HASH_SIZE

-----------------------------------------------------------------------------
(* Claims about the driver and the walk, checked under Spec *)

DriverState ==
  /\ tries <= MaxTries
  /\ Len(printed) <= 2
  /\ mark = "?" => printed = <<>>
  /\ pc = "done" => mark = "!"
  /\ \A i \in 1..Len(printed) :
       last_char(printed[i]) = "?" \/ last_char(printed[i]) = "!"
  /\ \A i \in 1..Len(printed), j \in 1..Len(printed) :
       i < j => (last_char(printed[i]) = "?" /\ last_char(printed[j]) = "!")

DriverStep ==
  /\ (pc = "loop" /\ pc' \in {"pick", "ret"}) => tries < MaxTries
  /\ pc # "ret" => printed' = printed
  /\ (pc = "ret" /\ last_char(out) = mark) =>
       /\ printed' = Append(printed, out)
       /\ IF mark = "?" THEN mark' = "!" /\ tries' = 0 /\ pc' = "loop"
          ELSE pc' = "done"
  /\ (pc = "ret" /\ last_char(out) # mark) =>
       /\ printed' = printed
       /\ tries' = tries + 1
       /\ mark' = mark
       /\ pc' = "loop"
  /\ (pc = "loop" /\ tries = MaxTries) =>
       /\ printed' = printed
       /\ IF mark = "?" THEN mark' = "!" /\ tries' = 0 /\ pc' = "loop"
          ELSE pc' = "done"
  /\ pc # "done"

\* C12: the rejection-sampling driver. For each mark, '?' then '!', the
\* driver calls generate_sentence only while fewer than MaxTries calls have
\* failed, a call whose output ends with the mark is printed as it is and
\* ends the loop of that mark, any other output is dropped and counted, and
\* when the tries are used up nothing is printed and the program goes on to
\* the next mark or to its end; so at most one sentence is printed per mark,
\* each ends with its mark, and nothing happens after the end.
C12_Driver == [](DriverState) /\ [][DriverStep]_vars

\* both marks were found, in two different outputs
C12_Witness ==
  /\ pc = "done"
  /\ Len(printed) = 2
  /\ last_char(printed[1]) = "?"
  /\ last_char(printed[2]) = "!"

\* the tries of both marks were used up and nothing was printed
C12_WitnessSilent == pc = "done" /\ printed = <<>> /\ tries = MaxTries /\ tokens_size > 0

-----------------------------------------------------------------------------
(* The end-to-end scenario, checked under SpecScenario *)

\* the buffer takes the longest path of the corpus through the test of
\* line 228, which asks for one byte more than the path and its terminator
LargeEnough == out_size > Len(ScenarioQuestion) + 1

\* C13: the end-to-end scenario. For the corpus "Who are you? Run away! Run
\* fast." and a buffer large enough for any path, every output of
\* generate_sentence that ends in '?' is exactly "Who are you?", and so is
\* every line printed for the mark '?'; that the output is reachable is the
\* witness below.
C13_Scenario ==
  (book = ScenarioText /\ LargeEnough) =>
    /\ (pc = "ret" /\ last_char(out) = "?") => out = ScenarioQuestion
    /\ \A i \in 1..Len(printed) :
         last_char(printed[i]) = "?" => printed[i] = ScenarioQuestion

\* some sequence of random choices has produced "Who are you?"
C13_Witness ==
  /\ book = ScenarioText
  /\ LargeEnough
  /\ pc = "ret"
  /\ out = ScenarioQuestion
  /\ reason = "terminal"
  /\ Spelling(start_id) = <<"W", "h", "o">>

\* the sentence was printed for the mark '?', and one for '!' after it
C13_WitnessPrinted ==
  /\ pc = "done"
  /\ Len(printed) = 2
  /\ printed[1] = ScenarioQuestion

-----------------------------------------------------------------------------
(* Claims about what a walk returns, checked under SpecReport and Spec *)

\* the (output, reason) of the walks of this run: those that have returned
\* to the driver and the one that is returning
Walks ==
  {w \in returned \cup (IF pc = "ret" THEN {<<out, reason>>} ELSE {}) :
     w[2] \in {"terminal", "dead_end", "size"}}

\* C14: the reported termination reason. All walks of a run are made on the
\* same tables with the same out_size, and generate_sentence returns nothing
\* but the buffer: two walks that return the same output have ended for the
\* same reason.
C14_ReasonReported ==
  \A a \in Walks, b \in Walks : a[1] = b[1] => a[2] = b[2]

\* a walk ended by a dead end and a walk ended by the size bound have
\* returned the same output
DeadEndLikeSize ==
  \E a \in Walks, b \in Walks :
    a[1] = b[1] /\ a[2] = "dead_end" /\ b[2] = "size"

\* the spelling at address p has an identifier, and hash_find returns it
Interned(p) ==
  LET f == hash_find(Model, p)
  IN  f >= 0 /\ f < tokens_size /\ Spelling(f) = CStr(p)

\* in the build pass and when it has just returned: every token yielded so
\* far, the previous token and every entry of every successor list is
\* interned
BuildInterned ==
  (pc = "tokenize" \/ Tokenized) =>
    /\ \A i \in 1..Len(yielded) :
         \E id \in 0..(tokens_size - 1) :
           Spelling(id) = yielded[i] /\ Interned(tokens[id + 1])
    /\ pc = "tokenize" => (prev # NULL => Interned(prev))
    /\ \A id \in 0..(tokens_size - 1) :
         \A k \in 1..Len(succs[id + 1]) : Interned(succs[id + 1][k])

\* the token of a walk over a non-empty vocabulary is interned; over the
\* empty one there is no successor entry at all
WalkInterned ==
  /\ (pc = "walk" /\ Len(yielded) > 0) => Interned(token)
  /\ Len(yielded) = 0 => \A id \in 0..(tokens_size - 1) : succs[id + 1] = <<>>

\* once a non-empty vocabulary is built, no step changes the tables or the
\* buffer the spellings are in
TablesKept ==
  (pc \notin {"begin", "tokenize"} /\ Len(yielded) > 0) =>
    UNCHANGED <<modelVars, book_mut>>

\* C15: every token is interned before it is referenced. During the build
\* pass every token yielded so far, the first and the last included, is the
\* spelling of an identifier that hash_find returns, and so is every entry
\* of every successor list; the tables of a non-empty vocabulary never
\* change afterwards, so this holds in every state; and at every step of a
\* walk over a non-empty vocabulary token_id(token) finds an identifier
\* below tokens_size.
C15_InternedBeforeReferenced ==
  /\ [](BuildInterned)
  /\ [](WalkInterned)
  /\ [][TablesKept]_vars

\* a walk stands at a successor entry that is a later occurrence of an
\* interned spelling, at another address than the one in tokens
C15_Witness ==
  /\ pc = "walk"
  /\ steps >= 1
  /\ Interned(token)
  /\ tokens[hash_find(Model, token) + 1] # token

\* the text has one token: it is the first and the last, has no
\* predecessor and no successor, and is interned
C15_WitnessSingle ==
  /\ Tokenized
  /\ Len(yielded) = 1
  /\ tokens_size = 1
  /\ succs_sizes = <<0>>

\* the words of o: what stands between its spaces
Words(o) ==
  LET sp == Sorted({i \in 1..Len(o) : o[i] = " "})
      n == Len(sp)
  IN  [k \in 1..(n + 1) |->
         SubSeq(o, IF k = 1 THEN 1 ELSE sp[k - 1] + 1,
                   IF k = n + 1 THEN Len(o) ELSE sp[k] - 1)]

\* the spelling of the token the walk starts from (line 216)
StartSpelling == IF tokens_size = 0 THEN <<>> ELSE Spelling(start_id)

\* the start token fits in the buffer with its terminator
StartFits == Len(StartSpelling) + 1 <= out_size

\* C16: the output is a path of the successor graph. At every point of a
\* walk whose start token fits in the buffer, the output is the start
\* spelling followed by one word per appended successor, separated by single
\* spaces; every word is the spelling of an entry of the successor list of
\* the word before it, whole, and the last word is the current token.
C16_OutputIsPath ==
  (InWalk /\ StartFits) =>
    LET w == Words(out)
    IN  /\ Len(w) = steps + 1
        /\ out = Join(w)
        /\ w[1] = StartSpelling
        /\ w[Len(w)] = CStr(token)
        /\ Len(yielded) > 0 => \A i \in 1..Len(w) : w[i] # <<>>
        /\ \A i \in 1..(Len(w) - 1) :
             \E id \in 0..(tokens_size - 1) :
               /\ Spelling(id) = w[i]
               /\ \E k \in 1..Len(succs[id + 1]) : SuccSpellings(id)[k] = w[i + 1]

\* a walk of three tokens has returned
C16_Witness ==
  /\ pc = "ret"
  /\ StartFits
  /\ steps = 2
  /\ Len(Words(out)) = 3
  /\ Words(out)[2] # Words(out)[1]

\* the terminal predicate: the last character is . ? or !
Terminal(s) == Len(s) > 0 /\ s[Len(s)] \in {".", "?", "!"}

C17_WitnessStart ==
  /\ pc = "ret"
  /\ steps = 0
  /\ Terminal(StartSpelling)
  /\ StartFits
  /\ succs_sizes[start_id + 1] > 0

\* line 227 against the buffer: the separator, the spelling at p and the
\* terminator fit behind the output
Fits(p) == Len(out) + 1 + strlen(p) + 1 <= out_size

\* C18: the size bound stops the walk only when the chosen successor does
\* not fit. A step that ends a walk by the size bound at a token with a
\* non-empty successor list had a successor to choose that does not fit:
\* strlen(out) + 1 + strlen(next) + 1 > out_size.
C18_SizeOnlyWhenNoFit ==
  [][(/\ pc = "walk"
      /\ pc' = "ret"
      /\ reason' = "size"
      /\ Interned(token)
      /\ succs_sizes[hash_find(Model, token) + 1] > 0)
     => \E k \in 1..succs_sizes[hash_find(Model, token) + 1] :
          ~Fits(succs[hash_find(Model, token) + 1][k])]_vars

-----------------------------------------------------------------------------
(* The open-addressing invariant, checked under SpecFull *)

\* the slot that holds identifier id
SlotOf(id) == CHOOSE i \in 0..(HASH_SIZE - 1) : hash_index[i] = id

\* how many slots after its home slot identifier id is stored
Displacement(id) ==
  ((SlotOf(id) + HASH_SIZE) - hash_slot(tokens[id + 1])) % HASH_SIZE

\* C19: the open-addressing invariant. While no token_id call has aborted,
\* every identifier below tokens_size is in exactly one slot of hash_index,
\* every other slot is -1, so tokens_size slots are occupied; no slot is
\* empty on the cyclic probe path from the home slot of a spelling to the
\* slot of its identifier; and hash_find returns the identifier of every
\* interned spelling.
C19_OpenAddressing ==
  pc # "aborted" =>
    /\ \A i \in 0..(HASH_SIZE - 1) :
         hash_index[i] = -1 \/ hash_index[i] \in 0..(tokens_size - 1)
    /\ \A id \in 0..(tokens_size - 1) :
         Cardinality({i \in 0..(HASH_SIZE - 1) : hash_index[i] = id}) = 1
    /\ Cardinality(Occupied) = tokens_size
    /\ \A id \in 0..(tokens_size - 1) :
         /\ \A k \in 0..Displacement(id) :
              hash_index[(hash_slot(tokens[id + 1]) + k) % HASH_SIZE] # -1
         /\ hash_find(Model, tokens[id + 1]) = id
         /\ hash_find_probes(Model, tokens[id + 1]) = Displacement(id) + 1

\* a spelling was displaced by a collision past the end of the table into
\* its first slots, and the table is full
C19_Witness ==
  /\ pc # "aborted"
  /\ tokens_size = HASH_SIZE
  /\ \E id \in 0..(tokens_size - 1) :
       /\ Displacement(id) >= 2
       /\ SlotOf(id) < hash_slot(tokens[id + 1])

====
